---- MODULE Spec2Model ----
(***************************************************************************)
(* A model of two parts of hurl:                                           *)
(*   - the entry runner, runner/entry.rs: run(entry, http_client,          *)
(*     entry_index, variables, context_dir, logger) -> EntryResult;        *)
(*   - the body-content grammar, parser/bytes.rs: bytes, file_bytes,       *)
(*     base64_bytes over a Reader.                                         *)
(* Spec is the runner: a file runner calling run on one entry after the    *)
(* other with one variable environment and one http client.                *)
(* ParserSpec is the grammar: a reader over a bounded input on which the   *)
(* parsers are applied.                                                    *)
(***************************************************************************)
EXTENDS Integers, Sequences, FiniteSets, TLC

VARIABLES
    variables,      \* HashMap<String, Value> shared by the entries of a run
    cookie_store,   \* the http client's cookie storage, in insertion order
    pc,             \* "ready" | "returned" | "panicked"
    entry,          \* Option<Entry>: the entry of the latest invocation
    outcome,        \* Option<outcome of http_client.execute> for that entry
    result,         \* Option<EntryResult>: what the latest invocation returned
    calls,          \* collaborators invoked by the latest invocation, in order
    vars_before,    \* the variable environment when the latest invocation began
    store_before,   \* the cookie storage when the latest invocation began
    logger,         \* the Logger the invocations are given
    prev_fatal,     \* Option<the environment before the entry before>, Some when
                    \* that entry ended with a fatal (non-assertion) error
    input,          \* Reader.buffer: the source text, a sequence of characters
    state,          \* Reader.state: [cursor, line, column]
    start,          \* Reader.state when the latest parser was invoked
    parsed          \* Option<ParseResult> of the latest parser

runner_vars == <<variables, cookie_store, pc, entry, outcome, result, calls,
                 vars_before, store_before, prev_fatal, logger>>
parser_vars == <<input, state, start, parsed>>
vars == <<runner_vars, parser_vars>>

----------------------------------------------------------------------------
(* Option<T> *)
None == <<>>
Some(x) == <<x>>
IsSome(o) == o /= <<>>
Unwrap(o) == o[1]

(* All sequences over S of length at most n *)
SeqUpTo(S, n) == UNION {[1..k -> S] : k \in 0..n}

----------------------------------------------------------------------------
(* Bounds of the runner model *)
MaxItems == 3       \* cookies, captures and assertions one entry declares in all

Names == {"a", "b"}          \* variable names
Values == {"v1", "v2"}       \* runtime values
Undefined == "undefined"     \* a name the HashMap does not hold
Fields == {"f", "g"}         \* what a response can be queried for
Missing == "missing"         \* a field the response does not have
NoRef == "-"                 \* a URL template without variable reference
ElapsedTimes == {7}          \* start.elapsed().as_millis()

UrlKinds == {"host", "nohost", "unparseable"}
UrlTemplates == [kind : UrlKinds, ref : {NoRef}] \cup {[kind |-> "host", ref |-> "a"]}
RequestCookies == {[name |-> "c1", value |-> "x"], [name |-> "c2", value |-> "y"]}
CaptureRules == {[name |-> "a", field |-> "f"], [name |-> "a", field |-> "g"],
                 [name |-> "b", field |-> "f"]}
AssertRules == {[var |-> "a", field |-> "f"], [var |-> "b", field |-> "g"]}

(* An entry: a request (URL template, cookies) and an optional response
   section (captures, asserts), with at most MaxItems declarations in all *)
EntriesWithoutResponse ==
    {[request |-> [url |-> u, cookies |-> cs], response |-> None] :
        u \in UrlTemplates, cs \in SeqUpTo(RequestCookies, MaxItems)}
EntriesWithResponse ==
    UNION {{[request |-> [url |-> u, cookies |-> cs],
             response |-> Some([captures |-> ps, asserts |-> qs])] :
                u \in UrlTemplates,
                cs \in [1..n[1] -> RequestCookies],
                ps \in [1..n[2] -> CaptureRules],
                qs \in SeqUpTo(AssertRules, MaxItems - n[1] - n[2])} :
           n \in {m \in (0..MaxItems) \X (0..MaxItems) : m[1] + m[2] <= MaxItems}}
Entries == EntriesWithoutResponse \cup EntriesWithResponse

(* the responses: field f is missing or holds a value, field g is missing or
   holds the first value *)
Responses == {r \in [Fields -> Values \cup {Missing}] : r["g"] /= "v2"}
Outcomes == {[ok |-> FALSE, response |-> None, elapsed |-> t] : t \in ElapsedTimes}
            \cup {[ok |-> TRUE, response |-> Some(r), elapsed |-> t] :
                     r \in Responses, t \in ElapsedTimes}

----------------------------------------------------------------------------
(* Collaborators of run that live outside runner/entry.rs *)

Error(inner, detail, assert) == [inner |-> inner, detail |-> detail, assert |-> assert]

(* Request::eval: resolve the templates of the request against the variables;
   a reference to a variable the environment does not hold is an error. *)
RequestEval(request, env) ==
    LET ref == request.url.ref IN
    IF ref /= NoRef /\ env[ref] = Undefined
    THEN [ok |-> FALSE, error |-> Error("TemplateVariableNotDefined", <<ref>>, FALSE)]
    ELSE [ok |-> TRUE,
          request |-> [url |-> [kind |-> request.url.kind,
                                arg |-> IF ref = NoRef THEN NoRef ELSE env[ref]],
                       cookies |-> request.cookies]]

(* Response::eval_captures: the capture rules in declaration order; the first
   rule that extracts nothing from the response is the error of the whole. *)
RECURSIVE eval_captures_from(_, _, _)
eval_captures_from(rules, http_response, acc) ==
    IF rules = <<>> THEN [ok |-> TRUE, captures |-> acc]
    ELSE LET rule == Head(rules) IN
         IF http_response[rule.field] = Missing
         THEN [ok |-> FALSE, error |-> Error("NoQueryResult", <<rule.name, rule.field>>, FALSE)]
         ELSE eval_captures_from(Tail(rules), http_response,
                  Append(acc, [name |-> rule.name, value |-> http_response[rule.field]]))

eval_captures(response, http_response) ==
    eval_captures_from(response.captures, http_response, <<>>)

(* One assertion: the variable holds the value of the response's field.
   AssertResult::error() is Some for a failed assertion. *)
AssertPasses(rule, env, http_response) ==
    /\ env[rule.var] /= Undefined
    /\ http_response[rule.field] /= Missing
    /\ env[rule.var] = http_response[rule.field]

(* Response::eval_asserts: one AssertResult per assertion, in declaration order *)
eval_asserts(response, env, http_response) ==
    [i \in 1..Len(response.asserts) |->
        LET rule == response.asserts[i] IN
        [rule |-> rule,
         error |-> IF AssertPasses(rule, env, http_response) THEN None
                   ELSE Some(Error("AssertFailure", <<rule.var, rule.field>>, FALSE))]]

(* url::Url::parse and Url::host_str: a URL such as "http://example.org/x" has a
   host, one such as "mailto:x" or "localhost:8000" parses without one *)
UrlParse(url) ==
    IF url.kind = "unparseable" THEN [ok |-> FALSE, host |-> None]
    ELSE [ok |-> TRUE,
          host |-> IF url.kind = "host" THEN Some("example.org") ELSE None]

(* http::Client::add_cookie: the cookie storage holds one cookie per domain,
   path and name, in insertion order; a cookie added again replaces the one held *)
add_cookie(store, cookie) ==
    LET same(c) == c.domain = cookie.domain /\ c.path = cookie.path
                   /\ c.name = cookie.name
    IN SelectSeq(store, LAMBDA c : ~same(c)) \o <<cookie>>

RECURSIVE add_cookies(_, _)
add_cookies(store, cookies) ==
    IF cookies = <<>> THEN store
    ELSE add_cookies(add_cookie(store, Head(cookies)), Tail(cookies))

Call(op, arg) == [op |-> op, arg |-> arg]

----------------------------------------------------------------------------
(* runner/entry.rs *)

(* the http::Cookie built for a request cookie *)
Cookie(host, c) ==
    [domain |-> host, include_subdomain |-> "FALSE", path |-> "/",
     https |-> "FALSE", expires |-> "0", name |-> c.name, value |-> c.value]

(* SeedCookies with the URL unwrapped instead of matched: a URL that does not
   parse panics *)
SeedCookiesUnwrapped(http_request) ==
    LET url == UrlParse(http_request.url) IN
    IF ~url.ok \/ (http_request.cookies /= <<>> /\ url.host = None)
    THEN [panicked |-> TRUE, added |-> <<>>]
    ELSE [panicked |-> FALSE,
          added |-> [i \in 1..Len(http_request.cookies) |->
                        Cookie(Unwrap(url.host), http_request.cookies[i])]]

(* The cookie seeding of run: the cookies handed to http_client.add_cookie, in
   order, and whether url.host_str().unwrap() panicked (it is evaluated for the
   first cookie, before any add_cookie). *)
SeedCookies(http_request) ==
    LET url == UrlParse(http_request.url) IN
    IF ~url.ok \/ http_request.cookies = <<>>
    THEN [panicked |-> FALSE, added |-> <<>>]
    ELSE IF url.host = None
    THEN [panicked |-> TRUE, added |-> <<>>]
    ELSE [panicked |-> FALSE,
          added |-> [i \in 1..Len(http_request.cookies) |->
                        Cookie(Unwrap(url.host), http_request.cookies[i])]]

(* TemplateFailure with the error dropped *)
TemplateFailureSilent(error) ==
    [request |-> None, response |-> None, captures |-> <<>>, asserts |-> <<>>,
     errors |-> <<>>, time_in_ms |-> 0]

(* the EntryResult of a failed template resolution *)
TemplateFailure(error) ==
    [request |-> None, response |-> None, captures |-> <<>>, asserts |-> <<>>,
     errors |-> <<error>>, time_in_ms |-> 0]

(* ConnectionFailure with the time measured up to the failure *)
ConnectionFailureTimed(http_request, elapsed) ==
    [request |-> Some(http_request), response |-> None, captures |-> <<>>,
     asserts |-> <<>>,
     errors |-> <<Error("HttpConnection",
                        <<"", http_request.url.kind, http_request.url.arg>>, FALSE)>>,
     time_in_ms |-> elapsed]

(* the EntryResult of a failed http_client.execute *)
ConnectionFailure(http_request, elapsed) ==
    [request |-> Some(http_request), response |-> None, captures |-> <<>>,
     asserts |-> <<>>,
     errors |-> <<Error("HttpConnection",
                        <<"", http_request.url.kind, http_request.url.arg>>, FALSE)>>,
     time_in_ms |-> 0]

(* CaptureFailure with the response left out *)
CaptureFailureNoResponse(http_request, http_response, error, time_in_ms) ==
    [request |-> Some(http_request), response |-> None,
     captures |-> <<>>, asserts |-> <<>>, errors |-> <<error>>,
     time_in_ms |-> time_in_ms]

(* the EntryResult of a failed capture evaluation *)
CaptureFailure(http_request, http_response, error, time_in_ms) ==
    [request |-> Some(http_request), response |-> Some(http_response),
     captures |-> <<>>, asserts |-> <<>>, errors |-> <<error>>,
     time_in_ms |-> time_in_ms]

(* InsertCaptures with a capture inserted only under a name not yet bound *)
RECURSIVE InsertCapturesAbsent(_, _)
InsertCapturesAbsent(env, captures) ==
    IF captures = <<>> THEN env
    ELSE InsertCapturesAbsent(
             IF env[Head(captures).name] = Undefined
             THEN [env EXCEPT ![Head(captures).name] = Head(captures).value]
             ELSE env,
             Tail(captures))

(* "update variables now!": variables.insert for every capture, in order *)
RECURSIVE InsertCaptures(_, _)
InsertCaptures(env, captures) ==
    IF captures = <<>> THEN env
    ELSE InsertCaptures([env EXCEPT ![Head(captures).name] = Head(captures).value],
                        Tail(captures))

(* AssertEnv with the assertions evaluated before the variables are updated *)
AssertEnvStale(env, captures) == env

(* the variable environment eval_asserts is given *)
AssertEnv(env, captures) == InsertCaptures(env, captures)

(* AssertErrors stopping at the first failed assertion *)
AssertErrorsFirst(asserts) ==
    LET failed == SelectSeq(asserts, LAMBDA a : IsSome(a.error)) IN
    IF failed = <<>> THEN <<>>
    ELSE <<[Unwrap(failed[1].error) EXCEPT !.assert = TRUE]>>

(* AssertErrors with the errors left as the assertions gave them *)
AssertErrorsUntagged(asserts) ==
    LET failed == SelectSeq(asserts, LAMBDA a : IsSome(a.error)) IN
    [i \in 1..Len(failed) |-> Unwrap(failed[i].error)]

(* the errors of the failed assertions, each retagged assert: true *)
RECURSIVE AssertErrors(_)
AssertErrors(asserts) ==
    IF asserts = <<>> THEN <<>>
    ELSE LET rest == AssertErrors(Tail(asserts)) IN
         IF IsSome(Head(asserts).error)
         THEN <<[Unwrap(Head(asserts).error) EXCEPT !.assert = TRUE]>> \o rest
         ELSE rest

InsertCalls(captures) ==
    [i \in 1..Len(captures) |-> Call("variables.insert", captures[i])]

(* Logger::verbose: the logger writes the lines it is given, or does nothing
   with them; it returns nothing *)
Loggers == {"silent", "verbose"}
verbose(lg, log, lines) == IF lg = "verbose" THEN log \o lines ELSE log

(* the lines about the cookie store, about the request and about the captures *)
LogCookieStore(lg, log, store) ==
    verbose(lg, log,
            <<"", "Cookie store:">> \o [i \in 1..Len(store) |-> store[i].name] \o <<"">>)

log_request(lg, log, request) ==
    verbose(lg, log,
            <<"Request", request.url.kind>>
            \o (IF request.cookies = <<>> THEN <<>>
                ELSE <<"[Cookies]">>
                     \o [i \in 1..Len(request.cookies) |-> request.cookies[i].name])
            \o <<"">>)

LogCaptures(lg, log, captures) ==
    verbose(lg,
            IF captures = <<>> THEN log
            ELSE verbose(lg, log,
                         <<"Captures">> \o [i \in 1..Len(captures) |-> captures[i].name]),
            <<"">>)

(* run: what one invocation on entry e returns and does to its collaborators
   and writes to the logger, given the variables, the cookie store and the
   logger, and given what http_client.execute answers *)
run(e, o, env, store, lg) ==
    LET req == RequestEval(e.request, env) IN
    IF ~req.ok
    THEN [panicked |-> FALSE, result |-> Some(TemplateFailure(req.error)),
          variables |-> env, added |-> <<>>,
          calls |-> <<Call("request.eval", env)>>, log |-> <<>>]
    ELSE
    LET http_request == req.request
        log1 == verbose(lg, <<>>, <<"---", "executing entry">>)
        seed == SeedCookies(http_request)
        calls2 == <<Call("request.eval", env)>>
                  \o [i \in 1..Len(seed.added) |-> Call("add_cookie", seed.added[i])]
    IN
    IF seed.panicked
    THEN [panicked |-> TRUE, result |-> None, variables |-> env,
          added |-> seed.added, calls |-> calls2, log |-> log1]
    ELSE
    LET log2 == log_request(lg, LogCookieStore(lg, log1, add_cookies(store, seed.added)),
                            http_request)
        calls3 == Append(calls2, Call("execute", http_request))
    IN
    IF ~o.ok
    THEN [panicked |-> FALSE,
          result |-> Some(ConnectionFailure(http_request, o.elapsed)),
          variables |-> env, added |-> seed.added, calls |-> calls3, log |-> log2]
    ELSE
    LET http_response == Unwrap(o.response)
        time_in_ms == o.elapsed
        log3 == verbose(lg, log2, <<"Response Time">>)
    IN
    IF e.response = None
    THEN [panicked |-> FALSE,
          result |-> Some([request |-> Some(http_request),
                           response |-> Some(http_response),
                           captures |-> <<>>, asserts |-> <<>>, errors |-> <<>>,
                           time_in_ms |-> time_in_ms]),
          variables |-> env, added |-> seed.added, calls |-> calls3,
          log |-> LogCaptures(lg, log3, <<>>)]
    ELSE
    LET response == Unwrap(e.response)
        cap == eval_captures(response, http_response)
        calls4 == Append(calls3, Call("eval_captures", env))
    IN
    IF ~cap.ok
    THEN [panicked |-> FALSE,
          result |-> Some(CaptureFailure(http_request, http_response,
                                         cap.error, time_in_ms)),
          variables |-> env, added |-> seed.added, calls |-> calls4, log |-> log3]
    ELSE
    LET captures == cap.captures
        updated == InsertCaptures(env, captures)
        asserts == eval_asserts(response, AssertEnv(env, captures), http_response)
        errors == AssertErrors(asserts)
    IN
    [panicked |-> FALSE,
     result |-> Some([request |-> Some(http_request),
                      response |-> Some(http_response),
                      captures |-> captures, asserts |-> asserts,
                      errors |-> errors, time_in_ms |-> time_in_ms]),
     variables |-> updated, added |-> seed.added,
     calls |-> calls4 \o InsertCalls(captures)
                  \o <<Call("eval_asserts", AssertEnv(env, captures))>>,
     log |-> LogCaptures(lg, log3, captures)]

----------------------------------------------------------------------------
(* The grammar of body content, parser/bytes.rs, over the Reader *)

MaxTokens == 4      \* pieces of text an input about a file is made of
MaxPieces == 3      \* pieces of text an input of another form is made of

(* the pieces the inputs are made of, as sequences of characters *)
File == <<"f", "i", "l", "e">>
Comma == <<",">>
Semicolon == <<";">>
Tokens == {File, Comma, Semicolon, <<" ">>, <<"\n">>,
           <<"f", "i", "l", "e", "n", "a", "m", "e", "1">>}

RECURSIVE Flatten(_)
Flatten(ts) == IF ts = <<>> THEN <<>> ELSE Head(ts) \o Flatten(Tail(ts))

(* the pieces of a base64 body, of a JSON body, of a multiline string and of
   an XML body *)
Base64 == <<"b", "a", "s", "e", "6", "4">>
(* the character U+0060, which a string of TLA+ cannot hold *)
Backquote == "U+0060"
Fence == <<Backquote, Backquote, Backquote>>
Quote == <<"\"">>
Base64Tokens == {Base64 \o Comma, Base64, <<" ">>, <<"T", " ", "W", "E", "=">>,
                 <<"T", "W", "\n", "F", "u">>, Semicolon}
JsonTokens == {<<"{">>, <<"}">>, <<"[", "1">>, <<",", "1">>, <<"]">>, <<" ">>,
               <<"x">>}
TextTokens == {Fence, <<"\n">>, <<"x">>, <<"<", "a", "/", ">">>, <<" ">>}

(* the inputs of the tests of bytes.rs *)
JsonListExample == <<"[", "1", ",", "2", ",", "3", "]", " ">>
JsonObjectExample == <<"{", " ", "}", " ">>
JsonTrueExample == <<"t", "r", "u", "e">>
JsonStringExample == <<"\"", "\"", " ", "x">>
XmlExample == <<"<", "a", "/", ">">>
FileExample ==
    <<"f", "i", "l", "e", ",", "d", "a", "t", "a", ".", "x", "m", "l", ";">>
JsonErrorExample == <<"{", " ", "x", " ">>
MultilinesErrorExample == Fence \o <<"\n", "x", "x", "x", " ">>
NumberExample == <<"1", "0", "0">>
FileSpaceExample ==
    <<"f", "i", "l", "e", ",", " ", "f", "i", "l", "e", "n", "a", "m", "e", "1", ";">>
FileTmpExample ==
    <<"f", "i", "l", "e", ",", " ", "t", "m", "p", "/", "f", "i", "l", "e", "n", "a", "m", "e", "1", ";">>
FileErrorExample ==
    <<"f", "i", "l", ";", " ", "f", "i", "l", "e", "n", "a", "m", "e", "1", ";">>
Base64Example ==
    <<"b", "a", "s", "e", "6", "4", ",", " ", " ", "T", " ", "W", "E", "=", ";", "x", "x", "x">>
Examples == {<<>>, JsonListExample, JsonObjectExample, JsonTrueExample,
             JsonStringExample, XmlExample, FileExample,
             JsonErrorExample, MultilinesErrorExample, NumberExample,
             FileSpaceExample, FileTmpExample, FileErrorExample, Base64Example}

InputsOf(tokens, n) == {Flatten(ts) : ts \in SeqUpTo(tokens, n)}
Inputs ==
    InputsOf(Tokens, MaxTokens) \cup InputsOf(Base64Tokens, MaxPieces)
        \cup InputsOf(JsonTokens, MaxPieces) \cup InputsOf(TextTokens, MaxPieces)
        \cup Examples

SpaceChars == {" ", "\t"}
Letters == {"a", "b", "c", "d", "e", "f", "g", "h", "i", "j", "k", "l", "m",
            "n", "o", "p", "q", "r", "s", "t", "u", "v", "w", "x", "y", "z"}
Digits == {"0", "1", "2", "3", "4", "5", "6", "7", "8", "9"}
FilenameChars == Letters \cup Digits \cup {".", "/", "_", "-"}

(* Reader *)
ReaderInit == [cursor |-> 0, line |-> 1, column |-> 1]
Pos(st) == [line |-> st.line, column |-> st.column]
is_eof(buf, st) == st.cursor = Len(buf)
peek(buf, st) == buf[st.cursor + 1]
(* Reader::read on a reader that is not at the end: the state after it *)
read(buf, st) ==
    IF peek(buf, st) = "\n"
    THEN [cursor |-> st.cursor + 1, line |-> st.line + 1, column |-> 1]
    ELSE [cursor |-> st.cursor + 1, line |-> st.line, column |-> st.column + 1]

(* Reader::read_while: the state after the longest run of characters of set *)
RECURSIVE read_while(_, _, _)
read_while(set, buf, st) ==
    IF is_eof(buf, st) \/ peek(buf, st) \notin set THEN st
    ELSE read_while(set, buf, read(buf, st))

Text(buf, from, to) == SubSeq(buf, from.cursor + 1, to.cursor)
SourceInfo(from, to) == [start |-> Pos(from), end |-> Pos(to)]

ParseOk(st, value) == [ok |-> TRUE, state |-> st, value |-> value]
ParseErr(st, pos, recoverable, inner) ==
    [ok |-> FALSE, state |-> st,
     error |-> [pos |-> pos, recoverable |-> recoverable, inner |-> inner]]
Expecting(s) == [kind |-> "Expecting", value |-> s]

(* literal: the text s or a non recoverable error at the position the literal
   began; the reader stays where the comparison stopped *)
RECURSIVE literal_from(_, _, _, _, _)
literal_from(s, i, buf, st, begin) ==
    IF i > Len(s) THEN ParseOk(st, <<>>)
    ELSE IF is_eof(buf, st) THEN ParseErr(st, Pos(begin), FALSE, Expecting(s))
    ELSE IF peek(buf, st) /= s[i]
         THEN ParseErr(read(buf, st), Pos(begin), FALSE, Expecting(s))
         ELSE literal_from(s, i + 1, buf, read(buf, st), begin)

literal(s, buf, st) == literal_from(s, 1, buf, st, st)

(* try_literal: literal, its error made recoverable and the reader restored *)
try_literal(s, buf, st) ==
    LET r == literal(s, buf, st) IN
    IF r.ok THEN r
    ELSE ParseErr(st, r.error.pos, TRUE, r.error.inner)

(* zero_or_more_spaces: the spaces and tabs at the reader, with their span *)
zero_or_more_spaces(buf, st) ==
    LET to == read_while(SpaceChars, buf, st) IN
    ParseOk(to, [value |-> Text(buf, st, to), source_info |-> SourceInfo(st, to)])

(* filename: a non-empty run of filename characters, with its span *)
filename(buf, st) ==
    LET to == read_while(FilenameChars, buf, st) IN
    IF to = st THEN ParseErr(st, Pos(st), FALSE, [kind |-> "Filename", value |-> <<>>])
    ELSE ParseOk(to, [value |-> Text(buf, st, to), source_info |-> SourceInfo(st, to)])

(* file_bytes with the terminating ";" probed instead of required *)
file_bytes_probing(buf, st) ==
    LET r1 == try_literal(File, buf, st) IN
    IF ~r1.ok THEN r1 ELSE
    LET r2 == literal(Comma, buf, r1.state) IN
    IF ~r2.ok THEN r2 ELSE
    LET space0 == zero_or_more_spaces(buf, r2.state)
        f == filename(buf, space0.state)
    IN
    IF ~f.ok THEN f ELSE
    LET space1 == zero_or_more_spaces(buf, f.state)
        r6 == try_literal(Semicolon, buf, space1.state)
    IN
    IF ~r6.ok THEN r6 ELSE
    ParseOk(r6.state, [variant |-> "File", space0 |-> space0.value,
                       filename |-> f.value, space1 |-> space1.value])

(* file_bytes with the spaces before the filename given as those after it *)
file_bytes_respaced(buf, st) ==
    LET r1 == try_literal(File, buf, st) IN
    IF ~r1.ok THEN r1 ELSE
    LET r2 == literal(Comma, buf, r1.state) IN
    IF ~r2.ok THEN r2 ELSE
    LET space0 == zero_or_more_spaces(buf, r2.state)
        f == filename(buf, space0.state)
    IN
    IF ~f.ok THEN f ELSE
    LET space1 == zero_or_more_spaces(buf, f.state)
        r6 == literal(Semicolon, buf, space1.state)
    IN
    IF ~r6.ok THEN r6 ELSE
    ParseOk(r6.state, [variant |-> "File", space0 |-> space0.value,
                       filename |-> f.value, space1 |-> space0.value])

(* file_bytes: "file" "," spaces filename spaces ";" *)
file_bytes(buf, st) ==
    LET r1 == try_literal(File, buf, st) IN
    IF ~r1.ok THEN r1 ELSE
    LET r2 == literal(Comma, buf, r1.state) IN
    IF ~r2.ok THEN r2 ELSE
    LET space0 == zero_or_more_spaces(buf, r2.state)
        f == filename(buf, space0.state)
    IN
    IF ~f.ok THEN f ELSE
    LET space1 == zero_or_more_spaces(buf, f.state)
        r6 == literal(Semicolon, buf, space1.state)
    IN
    IF ~r6.ok THEN r6 ELSE
    ParseOk(r6.state, [variant |-> "File", space0 |-> space0.value,
                       filename |-> f.value, space1 |-> space1.value])

(* choice, over the parsers by name: the first result that is not a
   recoverable error, each alternative tried from the position choice began
   at; the last alternative's result is returned as it is. The result names
   the parsers that were tried. *)
(* F applied to x: x is evaluated once, like a let binding of the code *)
Bind(x, F(_)) == F(x)

RECURSIVE parse_with(_, _, _)
RECURSIVE choice(_, _, _)
choice(fs, buf, st) ==
    Bind(parse_with(Head(fs), buf, st), LAMBDA r :
        IF Len(fs) > 1 /\ ~r.ok /\ r.error.recoverable
        THEN Bind(choice(Tail(fs), buf, st), LAMBDA next :
                 [tried |-> <<Head(fs)>> \o next.tried] @@ next)
        ELSE [tried |-> <<Head(fs)>>] @@ r)

(* the state at the next occurrence of s, or at the end *)
RECURSIVE read_until(_, _, _)
read_until(s, buf, st) ==
    IF is_eof(buf, st) \/ try_literal(s, buf, st).ok THEN st
    ELSE read_until(s, buf, read(buf, st))

(* Reader::read_n: the next count characters, fewer at the end *)
RECURSIVE read_n_from(_, _, _, _)
read_n_from(count, buf, st, from) ==
    IF count = 0 \/ is_eof(buf, st) THEN [state |-> st, value |-> Text(buf, from, st)]
    ELSE read_n_from(count - 1, buf, read(buf, st), from)
read_n(count, buf, st) == read_n_from(count, buf, st, st)

(* raw_string: a multiline string between two fences *)
raw_string(buf, st) ==
    LET r1 == try_literal(Fence, buf, st) IN
    IF ~r1.ok THEN r1 ELSE
    LET to == read_until(Fence, buf, r1.state)
        r2 == literal(Fence, buf, to)
    IN
    IF ~r2.ok THEN ParseErr(r2.state, Pos(to), FALSE, Expecting(Fence)) ELSE
    ParseOk(r2.state, [variant |-> "RawString", value |-> Text(buf, r1.state, to)])

(* The JSON grammar *)
JsonSpaces == {" ", "\t", "\n"}
Null == <<"n", "u", "l", "l">>
True == <<"t", "r", "u", "e">>
False == <<"f", "a", "l", "s", "e">>
Colon == <<":">>
JsonError == [kind |-> "Json", value |-> <<>>]
RECURSIVE parse_json(_, _)

null_value(buf, st) ==
    LET r == try_literal(Null, buf, st) IN
    IF ~r.ok THEN r ELSE ParseOk(r.state, [variant |-> "Null", value |-> Null])

boolean_value(buf, st) ==
    LET t == try_literal(True, buf, st)
        f == try_literal(False, buf, st)
    IN
    IF t.ok THEN ParseOk(t.state, [variant |-> "Boolean", value |-> True])
    ELSE IF f.ok THEN ParseOk(f.state, [variant |-> "Boolean", value |-> False])
    ELSE f

string_value(buf, st) ==
    LET r1 == try_literal(Quote, buf, st) IN
    IF ~r1.ok THEN r1 ELSE
    LET to == read_until(Quote, buf, r1.state)
        r2 == literal(Quote, buf, to)
    IN
    IF ~r2.ok THEN r2 ELSE
    ParseOk(r2.state, [variant |-> "String", value |-> Text(buf, r1.state, to)])

number_value(buf, st) ==
    LET to == read_while(Digits, buf, st) IN
    IF to = st THEN ParseErr(st, Pos(st), TRUE, Expecting(<<"n", "u", "m", "b", "e", "r">>))
    ELSE ParseOk(to, [variant |-> "Number", value |-> Text(buf, st, to)])

list_element(buf, st) ==
    LET s0 == read_while(JsonSpaces, buf, st) IN
    Bind(parse_json(buf, s0), LAMBDA v :
        IF ~v.ok THEN ParseErr(v.state, Pos(s0), FALSE, JsonError) ELSE
        LET s1 == read_while(JsonSpaces, buf, v.state) IN
        ParseOk(s1, [space0 |-> Text(buf, st, s0), value |-> v.value,
                     space1 |-> Text(buf, v.state, s1)]))

object_element(buf, st) ==
    LET s0 == read_while(JsonSpaces, buf, st)
        q1 == literal(Quote, buf, s0)
    IN
    IF ~q1.ok THEN q1 ELSE
    LET to == read_until(Quote, buf, q1.state)
        q2 == literal(Quote, buf, to)
    IN
    IF ~q2.ok THEN q2 ELSE
    LET s1 == read_while(JsonSpaces, buf, q2.state)
        c == literal(Colon, buf, s1)
    IN
    IF ~c.ok THEN c ELSE
    LET s2 == read_while(JsonSpaces, buf, c.state) IN
    Bind(parse_json(buf, s2), LAMBDA v :
        IF ~v.ok THEN ParseErr(v.state, Pos(s2), FALSE, JsonError) ELSE
        LET s3 == read_while(JsonSpaces, buf, v.state) IN
        ParseOk(s3, [space0 |-> Text(buf, st, s0), name |-> Text(buf, q1.state, to),
                     space1 |-> Text(buf, q2.state, s1),
                     space2 |-> Text(buf, c.state, s2),
                     value |-> v.value, space3 |-> Text(buf, v.state, s3)]))

(* the elements between the brackets, separated by commas *)
RECURSIVE elements(_, _, _, _)
elements(kind, buf, st, acc) ==
    Bind(IF kind = "list" THEN list_element(buf, st) ELSE object_element(buf, st),
         LAMBDA e :
        IF ~e.ok THEN e ELSE
        IF try_literal(Comma, buf, e.state).ok
        THEN elements(kind, buf, read(buf, e.state), Append(acc, e.value))
        ELSE ParseOk(e.state, Append(acc, e.value)))

bracketed(kind, variant, open, close, buf, st) ==
    LET r1 == try_literal(open, buf, st) IN
    IF ~r1.ok THEN r1 ELSE
    LET s0 == read_while(JsonSpaces, buf, r1.state) IN
    Bind(IF try_literal(close, buf, s0).ok THEN ParseOk(s0, <<>>)
         ELSE elements(kind, buf, s0, <<>>), LAMBDA es :
        IF ~es.ok THEN es ELSE
        LET r2 == literal(close, buf, es.state) IN
        IF ~r2.ok THEN r2 ELSE
        ParseOk(r2.state, [variant |-> variant, space0 |-> Text(buf, r1.state, s0),
                           elements |-> es.value]))

list_value(buf, st) == bracketed("list", "List", <<"[">>, <<"]">>, buf, st)
object_value(buf, st) == bracketed("object", "Object", <<"{">>, <<"}">>, buf, st)

parse_json(buf, st) ==
    choice(<<"null_value", "boolean_value", "string_value", "number_value",
             "list_value", "object_value">>, buf, st)

(* The XML grammar: an empty element *)
XmlError == [kind |-> "Xml", value |-> <<>>]
xml_parse(buf, st) ==
    IF is_eof(buf, st) \/ peek(buf, st) /= "<" THEN ParseErr(st, Pos(st), TRUE, XmlError)
    ELSE
    LET name == read_while(Letters, buf, read(buf, st))
        r == literal(<<"/", ">">>, buf, name)
    IN
    IF name = read(buf, st) \/ ~r.ok THEN ParseErr(name, Pos(st), FALSE, XmlError)
    ELSE ParseOk(r.state, Text(buf, st, r.state))

(* base64::parse: the bytes of the base64 text at the reader, which ends at
   its padding or before the first character that is neither of the alphabet
   nor whitespace; it cannot fail *)
Base64Alphabet ==
    <<"A", "B", "C", "D", "E", "F", "G", "H", "I", "J", "K", "L", "M",
      "N", "O", "P", "Q", "R", "S", "T", "U", "V", "W", "X", "Y", "Z",
      "a", "b", "c", "d", "e", "f", "g", "h", "i", "j", "k", "l", "m",
      "n", "o", "p", "q", "r", "s", "t", "u", "v", "w", "x", "y", "z",
      "0", "1", "2", "3", "4", "5", "6", "7", "8", "9", "+", "/">>
Base64Chars == {Base64Alphabet[i] : i \in DOMAIN Base64Alphabet}
Base64Spaces == {" ", "\t", "\n"}
Padding == {"="}
Base64Value(c) == (CHOOSE i \in DOMAIN Base64Alphabet : Base64Alphabet[i] = c) - 1

(* the bytes of a group of four, three or two characters, given by value *)
decode(sextets) ==
    LET b1 == sextets[1] * 4 + sextets[2] \div 16
        b2 == (sextets[2] % 16) * 16 + sextets[3] \div 4
        b3 == (sextets[3] % 4) * 64 + sextets[4]
    IN
    CASE Len(sextets) = 4 -> <<b1, b2, b3>>
      [] Len(sextets) = 3 -> <<b1, b2>>
      [] Len(sextets) = 2 -> <<b1>>
      [] OTHER -> <<>>

RECURSIVE base64_parse_from(_, _, _, _)
base64_parse_from(buf, st, sextets, bytes) ==
    LET pad == read_while(Padding, buf, st) IN
    IF pad /= st THEN [state |-> pad, value |-> bytes \o decode(sextets)]
    ELSE IF is_eof(buf, st) THEN [state |-> st, value |-> bytes \o decode(sextets)]
    ELSE IF peek(buf, st) \in Base64Spaces
         THEN base64_parse_from(buf, read(buf, st), sextets, bytes)
    ELSE IF peek(buf, st) \notin Base64Chars
         THEN [state |-> st, value |-> bytes \o decode(sextets)]
    ELSE LET group == Append(sextets, Base64Value(peek(buf, st))) IN
         IF Len(group) = 4
         THEN base64_parse_from(buf, read(buf, st), <<>>, bytes \o decode(group))
         ELSE base64_parse_from(buf, read(buf, st), group, bytes)
base64_parse(buf, st) == base64_parse_from(buf, st, <<>>, <<>>)

(* json_bytes with the errors of the grammar made recoverable *)
json_bytes_recovering(buf, st) ==
    Bind(parse_json(buf, st), LAMBDA r :
        IF ~r.ok THEN ParseErr(st, r.error.pos, TRUE, r.error.inner)
        ELSE ParseOk(r.state, [variant |-> "Json", value |-> r.value]))

(* json_bytes with the whitespace after the value consumed *)
json_bytes_trimming(buf, st) ==
    Bind(parse_json(buf, st), LAMBDA r :
        IF ~r.ok THEN r
        ELSE ParseOk(read_while(JsonSpaces, buf, r.state),
                     [variant |-> "Json", value |-> r.value]))

(* xml_bytes and json_bytes: the result of the grammar, as a body *)
xml_bytes(buf, st) ==
    LET r == xml_parse(buf, st) IN
    IF ~r.ok THEN r ELSE ParseOk(r.state, [variant |-> "Xml", value |-> r.value])

json_bytes(buf, st) ==
    Bind(parse_json(buf, st), LAMBDA r :
        IF ~r.ok THEN r ELSE ParseOk(r.state, [variant |-> "Json", value |-> r.value]))

(* base64_bytes changed in one place: the reader left where the comparison
   with the keyword stopped ("unrestored"), the payload read again from where
   its parse ended ("ahead"), or its bytes parsed after it was read again
   ("late") *)
base64_bytes_changed(change, buf, st) ==
    LET k == literal(Base64, buf, st)
        r1 == IF change = "unrestored" /\ ~k.ok
              THEN ParseErr(k.state, k.error.pos, TRUE, k.error.inner)
              ELSE try_literal(Base64, buf, st)
    IN
    IF ~r1.ok THEN r1 ELSE
    LET r2 == literal(Comma, buf, r1.state) IN
    IF ~r2.ok THEN r2 ELSE
    LET space0 == zero_or_more_spaces(buf, r2.state)
        save_state == space0.state
        value == base64_parse(buf, save_state)
        count == value.state.cursor - save_state.cursor
        encoded == read_n(count, buf, IF change = "ahead" THEN value.state ELSE save_state)
        space1 == zero_or_more_spaces(buf, encoded.state)
        r6 == literal(Semicolon, buf, space1.state)
    IN
    IF ~r6.ok THEN r6 ELSE
    ParseOk(r6.state, [variant |-> "Base64", space0 |-> space0.value,
                       value |-> IF change = "late"
                                 THEN base64_parse(buf, encoded.state).value
                                 ELSE value.value,
                       encoded |-> encoded.value, space1 |-> space1.value])

base64_bytes_unrestored(buf, st) == base64_bytes_changed("unrestored", buf, st)
base64_bytes_ahead(buf, st) == base64_bytes_changed("ahead", buf, st)
base64_bytes_late(buf, st) == base64_bytes_changed("late", buf, st)

(* base64_bytes: "base64" "," spaces payload spaces ";", the payload parsed
   for its bytes and then read again, from where it began, for its text *)
base64_bytes(buf, st) ==
    LET r1 == try_literal(Base64, buf, st) IN
    IF ~r1.ok THEN r1 ELSE
    LET r2 == literal(Comma, buf, r1.state) IN
    IF ~r2.ok THEN r2 ELSE
    LET space0 == zero_or_more_spaces(buf, r2.state)
        save_state == space0.state
        value == base64_parse(buf, save_state)
        count == value.state.cursor - save_state.cursor
        encoded == read_n(count, buf, save_state)
        space1 == zero_or_more_spaces(buf, encoded.state)
        r6 == literal(Semicolon, buf, space1.state)
    IN
    IF ~r6.ok THEN r6 ELSE
    ParseOk(r6.state, [variant |-> "Base64", space0 |-> space0.value,
                       value |-> value.value, encoded |-> encoded.value,
                       space1 |-> space1.value])

parse_with(name, buf, st) ==
    CASE name = "raw_string" -> raw_string(buf, st)
      [] name = "json_bytes" -> json_bytes(buf, st)
      [] name = "xml_bytes" -> xml_bytes(buf, st)
      [] name = "base64_bytes" -> base64_bytes(buf, st)
      [] name = "file_bytes" -> file_bytes(buf, st)
      [] name = "null_value" -> null_value(buf, st)
      [] name = "boolean_value" -> boolean_value(buf, st)
      [] name = "string_value" -> string_value(buf, st)
      [] name = "number_value" -> number_value(buf, st)
      [] name = "list_value" -> list_value(buf, st)
      [] name = "object_value" -> object_value(buf, st)

(* bytes with file_bytes tried before base64_bytes *)
bytes_reordered(buf, st) ==
    choice(<<"raw_string", "json_bytes", "xml_bytes", "file_bytes", "base64_bytes">>,
           buf, st)

(* bytes: the body content, the first of its forms that is at the reader *)
bytes(buf, st) ==
    choice(<<"raw_string", "json_bytes", "xml_bytes", "base64_bytes", "file_bytes">>,
           buf, st)

----------------------------------------------------------------------------
(* The grammar is not in use while the runner runs *)
ParserIdle ==
    /\ input = <<>>
    /\ state = ReaderInit
    /\ start = ReaderInit
    /\ parsed = None

(* The runner *)
EmptyVariables == [n \in Names |-> Undefined]

Init ==
    /\ variables = EmptyVariables
    /\ cookie_store = <<>>
    /\ pc = "ready"
    /\ entry = None
    /\ outcome = None
    /\ result = None
    /\ calls = <<>>
    /\ vars_before = EmptyVariables
    /\ store_before = <<>>
    /\ prev_fatal = None
    /\ logger = "silent"
    /\ ParserIdle

(* RunOn with the variables cleared when the entry ends with a fatal error *)
RunOnClearing(e, o) ==
    /\ \E r \in {run(e, o, variables, cookie_store, logger)} :
        /\ pc' = IF r.panicked THEN "panicked" ELSE "returned"
        /\ result' = r.result
        /\ variables' = IF IsSome(r.result) /\ Unwrap(r.result).response = None
                        THEN EmptyVariables ELSE r.variables
        /\ cookie_store' = add_cookies(cookie_store, r.added)
        /\ calls' = r.calls
        /\ outcome' = IF \E i \in DOMAIN r.calls : r.calls[i].op = "execute"
                      THEN Some(o) ELSE None
    /\ entry' = Some(e)
    /\ vars_before' = variables
    /\ store_before' = cookie_store
    /\ UNCHANGED <<prev_fatal, logger, parser_vars>>

(* RunOn with the variables updated only where the captures are logged *)
RunOnLogging(e, o) ==
    /\ \E r \in {run(e, o, variables, cookie_store, logger)} :
        /\ pc' = IF r.panicked THEN "panicked" ELSE "returned"
        /\ result' = r.result
        /\ variables' = IF logger = "verbose" THEN r.variables ELSE variables
        /\ cookie_store' = add_cookies(cookie_store, r.added)
        /\ calls' = r.calls
        /\ outcome' = IF \E i \in DOMAIN r.calls : r.calls[i].op = "execute"
                      THEN Some(o) ELSE None
    /\ entry' = Some(e)
    /\ vars_before' = variables
    /\ store_before' = cookie_store
    /\ UNCHANGED <<prev_fatal, logger, parser_vars>>

(* One invocation of run, on entry e, with http_client.execute answering o *)
RunOn(e, o) ==
    /\ \E r \in {run(e, o, variables, cookie_store, logger)} :
        /\ pc' = IF r.panicked THEN "panicked" ELSE "returned"
        /\ result' = r.result
        /\ variables' = r.variables
        /\ cookie_store' = add_cookies(cookie_store, r.added)
        /\ calls' = r.calls
        /\ outcome' = IF \E i \in DOMAIN r.calls : r.calls[i].op = "execute"
                      THEN Some(o) ELSE None
    /\ entry' = Some(e)
    /\ vars_before' = variables
    /\ store_before' = cookie_store
    /\ UNCHANGED <<prev_fatal, logger, parser_vars>>

(* whether run on entry e reaches http_client.execute, and what execute can
   answer it: one answer stands for all where execute is not called *)
Executes(e, env) ==
    LET req == RequestEval(e.request, env) IN
    req.ok /\ ~SeedCookies(req.request).panicked
Answers(e, env) ==
    IF Executes(e, env) THEN Outcomes ELSE {CHOOSE o \in Outcomes : ~o.ok}

Run ==
    /\ pc = "ready"
    /\ \E e \in Entries : \E o \in Answers(e, variables) : RunOn(e, o)

(* an EntryResult with an error that is not a failed assertion *)
Fatal(r) == \E i \in DOMAIN r.errors : ~r.errors[i].assert

(* The caller takes the EntryResult and goes on to the next entry of the file *)
NextEntry ==
    /\ pc = "returned"
    /\ pc' = "ready"
    /\ entry' = None
    /\ outcome' = None
    /\ result' = None
    /\ calls' = <<>>
    /\ vars_before' = variables
    /\ store_before' = cookie_store
    /\ prev_fatal' = IF Fatal(Unwrap(result)) THEN Some(vars_before) ELSE None
    /\ UNCHANGED <<variables, cookie_store, logger, parser_vars>>

Next ==
    \/ Run
    \/ NextEntry

Spec == Init /\ [][Next]_vars

(* One invocation of run with either logger, on any variables and on a cookie
   store that is empty or holds a cookie already *)
Environments == [Names -> Values \cup {Undefined}]
Stores == {<<>>, <<Cookie("h", [name |-> "c1", value |-> "old"])>>}
RunInit ==
    /\ variables \in Environments
    /\ cookie_store \in Stores
    /\ logger \in Loggers
    /\ pc = "ready"
    /\ entry = None
    /\ outcome = None
    /\ result = None
    /\ calls = <<>>
    /\ vars_before = variables
    /\ store_before = cookie_store
    /\ prev_fatal = None
    /\ ParserIdle

RunSpec == RunInit /\ [][Run]_vars

----------------------------------------------------------------------------
(* The grammar: a reader over one of the inputs, moved to some position by
   the parsers before, on which a parser of bytes.rs is then applied *)
RunnerIdle ==
    /\ variables = EmptyVariables
    /\ cookie_store = <<>>
    /\ pc = "ready"
    /\ entry = None
    /\ outcome = None
    /\ result = None
    /\ calls = <<>>
    /\ vars_before = EmptyVariables
    /\ store_before = <<>>
    /\ prev_fatal = None
    /\ logger = "silent"

ParserInit ==
    /\ input \in Inputs
    /\ state = ReaderInit
    /\ start = ReaderInit
    /\ parsed = None
    /\ RunnerIdle

(* a character is read before the parser is applied *)
Read ==
    /\ parsed = None
    /\ ~is_eof(input, state)
    /\ state' = read(input, state)
    /\ start' = state'
    /\ UNCHANGED <<input, parsed, runner_vars>>

Apply(parser, r) ==
    /\ parsed = None
    /\ parsed' = Some([parser |-> parser, ok |-> r.ok,
                       value |-> IF r.ok THEN Some(r.value) ELSE None,
                       error |-> IF r.ok THEN None ELSE Some(r.error),
                       tried |-> IF "tried" \in DOMAIN r THEN r.tried
                                 ELSE <<parser>>])
    /\ state' = r.state
    /\ UNCHANGED <<input, start, runner_vars>>

(* a parser is applied once, to the reader as the reads have left it *)
FileBytes ==
    parsed = None /\ \E r \in {file_bytes(input, state)} : Apply("file_bytes", r)
Base64Bytes ==
    parsed = None /\ \E r \in {base64_bytes(input, state)} : Apply("base64_bytes", r)
Bytes ==
    parsed = None /\ \E r \in {bytes(input, state)} : Apply("bytes", r)

ParserNext ==
    \/ Read
    \/ FileBytes
    \/ Base64Bytes
    \/ Bytes

ParserSpec == ParserInit /\ [][ParserNext]_vars

----------------------------------------------------------------------------
(* The latest invocation of run, as the state records it *)
Invoked == pc \in {"returned", "panicked"}
TheEntry == Unwrap(entry)
TheResult == Unwrap(result)
Declared == Unwrap(TheEntry.response)
Resolved == RequestEval(TheEntry.request, vars_before)
Called(op) == \E i \in DOMAIN calls : calls[i].op = op
CallsOf(op) == SelectSeq(calls, LAMBDA c : c.op = op)
HttpResponse == Unwrap(Unwrap(outcome).response)
ExecuteFailed == Invoked /\ IsSome(outcome) /\ ~Unwrap(outcome).ok
ExecuteSucceeded == Invoked /\ IsSome(outcome) /\ Unwrap(outcome).ok
(* the capture rules of the entry that extract nothing from the response *)
FailingCaptures ==
    {i \in DOMAIN Declared.captures : HttpResponse[Declared.captures[i].field] = Missing}
CapturesFailed == ExecuteSucceeded /\ IsSome(TheEntry.response) /\ FailingCaptures /= {}
CapturesSucceeded == ExecuteSucceeded /\ IsSome(TheEntry.response) /\ FailingCaptures = {}

(* C1: when resolving the request templates fails, run returns an EntryResult
   without request and response, with no captures and no asserts, with exactly
   the template error and time 0; no cookie is added to the cookie store,
   execute is not called and no capture or assertion is evaluated. *)
C1_TemplateFailure ==
    (Invoked /\ ~Resolved.ok) =>
        /\ pc = "returned"
        /\ TheResult.request = None
        /\ TheResult.response = None
        /\ TheResult.captures = <<>>
        /\ TheResult.asserts = <<>>
        /\ TheResult.errors = <<Resolved.error>>
        /\ TheResult.time_in_ms = 0
        /\ cookie_store = store_before
        /\ ~Called("add_cookie")
        /\ ~Called("execute")
        /\ ~Called("eval_captures")
        /\ ~Called("eval_asserts")

C1_Witness ==
    /\ pc = "returned"
    /\ ~Resolved.ok
    /\ TheEntry.request.cookies /= <<>>
    /\ IsSome(TheEntry.response)
    /\ Declared.captures /= <<>>
    /\ store_before /= <<>>

(* C2: when the templates resolve and execute returns a connection error, run
   returns an EntryResult with the resolved request, no response, no captures,
   no asserts, time 0 and exactly one connection error that carries the
   resolved URL and is not tagged as an assertion error; no capture or
   assertion is evaluated. *)
C2_ConnectionFailure ==
    ExecuteFailed =>
        /\ pc = "returned"
        /\ Resolved.ok
        /\ TheResult.request = Some(Resolved.request)
        /\ TheResult.response = None
        /\ TheResult.captures = <<>>
        /\ TheResult.asserts = <<>>
        /\ TheResult.time_in_ms = 0
        /\ Len(TheResult.errors) = 1
        /\ TheResult.errors[1].inner = "HttpConnection"
        /\ TheResult.errors[1].detail[2] = Resolved.request.url.kind
        /\ TheResult.errors[1].detail[3] = Resolved.request.url.arg
        /\ ~TheResult.errors[1].assert
        /\ ~Called("eval_captures")
        /\ ~Called("eval_asserts")

C2_Witness ==
    /\ ExecuteFailed
    /\ Unwrap(outcome).elapsed > 0
    /\ Resolved.request.url.arg \in Values
    /\ IsSome(TheEntry.response)
    /\ Declared.captures /= <<>>
    /\ Declared.asserts /= <<>>

(* C3: when the request succeeds and a capture rule of the entry fails, run
   returns an EntryResult with request and response, with no captures (also
   when earlier rules of the entry succeeded), no asserts and exactly the
   capture error; no assertion is evaluated and no capture is written into
   the variable environment. *)
C3_CaptureFailure ==
    CapturesFailed =>
        LET first == CHOOSE i \in FailingCaptures : \A j \in FailingCaptures : i <= j
            rule == Declared.captures[first]
        IN
        /\ pc = "returned"
        /\ TheResult.request = Some(Resolved.request)
        /\ TheResult.response = Some(HttpResponse)
        /\ TheResult.captures = <<>>
        /\ TheResult.asserts = <<>>
        /\ Len(TheResult.errors) = 1
        /\ TheResult.errors[1].inner = "NoQueryResult"
        /\ TheResult.errors[1].detail = <<rule.name, rule.field>>
        /\ ~Called("eval_asserts")
        /\ ~Called("variables.insert")
        /\ variables = vars_before

C3_Witness ==
    /\ CapturesFailed
    /\ 1 \notin FailingCaptures
    /\ vars_before[Declared.captures[1].name]
         /= HttpResponse[Declared.captures[1].field]
    /\ Declared.asserts /= <<>>

(* the value the captures of the result bind to name n, if they bind it *)
CapturedAs(n) ==
    LET cs == TheResult.captures
        at == {i \in DOMAIN cs : cs[i].name = n}
    IN IF at = {} THEN None
       ELSE Some(cs[CHOOSE i \in at : \A j \in at : j <= i].value)

(* C4: when all captures of an entry succeed, every captured {name, value} is
   in the variable environment, a later capture of a name overwriting an
   earlier one, before any assertion of the entry is evaluated: every
   variables.insert precedes eval_asserts, eval_asserts is given the
   environment holding all the captures, and every assertion passes or fails
   as it does against that environment, never against the stale one. *)
C4_CapturesBeforeAsserts ==
    CapturesSucceeded =>
        /\ pc = "returned"
        /\ Len(TheResult.captures) = Len(Declared.captures)
        /\ \A i \in DOMAIN Declared.captures :
              TheResult.captures[i] =
                  [name |-> Declared.captures[i].name,
                   value |-> HttpResponse[Declared.captures[i].field]]
        /\ \A n \in Names :
              variables[n] = IF IsSome(CapturedAs(n)) THEN Unwrap(CapturedAs(n))
                             ELSE vars_before[n]
        /\ Len(CallsOf("variables.insert")) = Len(Declared.captures)
        /\ Len(CallsOf("eval_asserts")) = 1
        /\ \A i, j \in DOMAIN calls :
              (calls[i].op = "variables.insert" /\ calls[j].op = "eval_asserts")
                  => i < j
        /\ CallsOf("eval_asserts")[1].arg = variables
        /\ \A i \in DOMAIN TheResult.asserts :
              (TheResult.asserts[i].error = None)
                  <=> AssertPasses(Declared.asserts[i], variables, HttpResponse)

C4_Witness ==
    /\ CapturesSucceeded
    /\ \E i \in DOMAIN Declared.asserts :
          /\ TheResult.asserts[i].error = None
          /\ IsSome(CapturedAs(Declared.asserts[i].var))
          /\ vars_before[Declared.asserts[i].var] \in Values
          /\ vars_before[Declared.asserts[i].var]
                /= variables[Declared.asserts[i].var]

(* the indexes of the failed assertions of the result, and the k-th of them *)
FailedAsserts == {i \in DOMAIN TheResult.asserts : IsSome(TheResult.asserts[i].error)}
NthFailed(k) ==
    CHOOSE i \in FailedAsserts : Cardinality({j \in FailedAsserts : j <= i}) = k

(* C5: for an entry whose request and captures succeed and that declares n
   assertions of which k fail, in any positions, the result has n assert
   results in declaration order, its errors are exactly the k failures in the
   same order, each tagged as an assertion error, and request and response are
   present. *)
C5_NoShortCircuit ==
    CapturesSucceeded =>
        /\ pc = "returned"
        /\ IsSome(TheResult.request)
        /\ IsSome(TheResult.response)
        /\ Len(TheResult.asserts) = Len(Declared.asserts)
        /\ \A i \in DOMAIN Declared.asserts :
              TheResult.asserts[i].rule = Declared.asserts[i]
        /\ Len(TheResult.errors) = Cardinality(FailedAsserts)
        /\ \A k \in DOMAIN TheResult.errors :
              /\ TheResult.errors[k].assert
              /\ TheResult.errors[k].inner
                   = Unwrap(TheResult.asserts[NthFailed(k)].error).inner
              /\ TheResult.errors[k].detail
                   = Unwrap(TheResult.asserts[NthFailed(k)].error).detail

C5_Witness ==
    /\ CapturesSucceeded
    /\ Len(Declared.asserts) = 3
    /\ FailedAsserts = {1, 3}
    /\ Len(TheResult.errors) = 2

(* how the templates of the latest entry resolve against environment env *)
ResolvesAgainst(env) ==
    LET url == TheEntry.request.url IN
    IF url.ref /= NoRef /\ env[url.ref] = Undefined
    THEN TheResult.request = None
    ELSE /\ pc = "returned" => IsSome(TheResult.request)
         /\ (pc = "returned" /\ url.ref /= NoRef) =>
                Unwrap(TheResult.request).url.arg = env[url.ref]

(* C6: a connection failure, or another fatal error, of entry N leaves the
   variable environment as it was before entry N, and entry N+1 is run and
   resolves its templates against the variables set by the entries before N. *)
C6_EntryIsolation ==
    /\ (pc = "returned" /\ Fatal(TheResult)) => variables = vars_before
    /\ (Invoked /\ IsSome(prev_fatal)) =>
          /\ vars_before = Unwrap(prev_fatal)
          /\ ResolvesAgainst(Unwrap(prev_fatal))

C6_Witness ==
    /\ pc = "returned"
    /\ IsSome(prev_fatal)
    /\ TheEntry.request.url.ref /= NoRef
    /\ IsSome(TheResult.request)
    /\ Unwrap(TheResult.request).url.arg = Unwrap(prev_fatal)[TheEntry.request.url.ref]
    /\ Unwrap(prev_fatal)["b"] \in Values

(* C7: every invocation of run returns an EntryResult and none terminates
   abruptly, whatever the resolved URL, the request cookies and the outcome of
   the http client. *)
C7_NeverPanics ==
    /\ pc /= "panicked"
    /\ pc = "returned" => IsSome(result)

(* C8: when the templates resolve and the resolved URL parses, run adds one
   cookie per request cookie, in declaration order, with the domain of the
   URL's host, path "/", include-subdomains FALSE, secure FALSE, expiry 0 and
   the cookie's name and value, all of them before the one call of execute. *)
C8_CookiesSeeded ==
    (Invoked /\ Resolved.ok /\ UrlParse(Resolved.request.url).ok) =>
        LET cookies == Resolved.request.cookies
            added == CallsOf("add_cookie")
        IN
        /\ Len(added) = Len(cookies)
        /\ \A i \in DOMAIN added :
              /\ Some(added[i].arg.domain) = UrlParse(Resolved.request.url).host
              /\ added[i].arg.path = "/"
              /\ added[i].arg.include_subdomain = "FALSE"
              /\ added[i].arg.https = "FALSE"
              /\ added[i].arg.expires = "0"
              /\ added[i].arg.name = cookies[i].name
              /\ added[i].arg.value = cookies[i].value
        /\ Len(CallsOf("execute")) = 1
        /\ \A i, j \in DOMAIN calls :
              (calls[i].op = "add_cookie" /\ calls[j].op = "execute") => i < j

(* C9: when the resolved URL does not parse, cookie seeding is skipped
   silently: no cookie is added, no error is recorded for the parse failure,
   and execute is called once with the resolved request, the result being the
   one request execution gives: a connection error when execute fails, the
   response when it succeeds. *)
C9_UnparseableUrl ==
    (Invoked /\ Resolved.ok /\ ~UrlParse(Resolved.request.url).ok) =>
        /\ pc = "returned"
        /\ ~Called("add_cookie")
        /\ cookie_store = store_before
        /\ Len(CallsOf("execute")) = 1
        /\ CallsOf("execute")[1].arg = Resolved.request
        /\ TheResult.request = Some(Resolved.request)
        /\ IsSome(outcome)
        /\ ~Unwrap(outcome).ok =>
              /\ TheResult.response = None
              /\ Len(TheResult.errors) = 1
              /\ TheResult.errors[1].inner = "HttpConnection"
        /\ Unwrap(outcome).ok =>
              /\ TheResult.response = Some(HttpResponse)
              /\ \A i \in DOMAIN TheResult.errors :
                    TheResult.errors[i].inner \in {"NoQueryResult", "AssertFailure"}

C9_Witness ==
    /\ pc = "returned"
    /\ Resolved.ok
    /\ ~UrlParse(Resolved.request.url).ok
    /\ Len(Resolved.request.cookies) = 2
    /\ ExecuteFailed

----------------------------------------------------------------------------
(* The latest parse, as the state records it *)
Parsed == Unwrap(parsed)
ParseError == Unwrap(Parsed.error)
(* line and column of the character after the first k of buf, counted anew *)
PosAt(buf, k) ==
    LET newlines == {i \in 1..k : buf[i] = "\n"}
        last == IF newlines = {} THEN 0
                ELSE CHOOSE i \in newlines : \A j \in newlines : j <= i
    IN [line |-> 1 + Cardinality(newlines), column |-> k - last + 1]
StartsWith(buf, k, s) ==
    k + Len(s) <= Len(buf) /\ SubSeq(buf, k + 1, k + Len(s)) = s
(* where the run of characters of set that begins after the first k ends *)
RunEnd(set, buf, k) ==
    CHOOSE j \in k..Len(buf) :
        /\ \A i \in (k + 1)..j : buf[i] \in set
        /\ j = Len(buf) \/ buf[j + 1] \notin set
FileBytesApplied == IsSome(parsed) /\ Parsed.parser = "file_bytes"
KeywordFile == StartsWith(input, start.cursor, File)
(* "file" "," spaces filename spaces is at the reader: where the filename
   begins and where the ";" must be *)
FilenameAt == RunEnd(SpaceChars, input, start.cursor + 5)
SemicolonAt == RunEnd(SpaceChars, input, RunEnd(FilenameChars, input, FilenameAt))
FileAndFilename ==
    /\ StartsWith(input, start.cursor, File \o Comma)
    /\ RunEnd(FilenameChars, input, FilenameAt) > FilenameAt
FilenameExample ==
    File \o Comma \o <<" ">> \o <<"f", "i", "l", "e", "n", "a", "m", "e", "1">>

(* C10: file_bytes fails recoverably, at the position where it was invoked,
   exactly when the text at the reader does not begin with "file"; once "file"
   has matched every failure is non recoverable; and a missing ";" is the
   error expecting ";" at the position after the filename and the spaces that
   follow it (line 1, column 16 for "file, filename1"), not at the start. *)
C10_FileBytesErrors ==
    FileBytesApplied =>
        /\ ~KeywordFile =>
              /\ ~Parsed.ok
              /\ ParseError.recoverable
              /\ ParseError.pos = PosAt(input, start.cursor)
        /\ (KeywordFile /\ ~Parsed.ok) => ~ParseError.recoverable
        /\ (FileAndFilename /\ ~StartsWith(input, SemicolonAt, Semicolon)) =>
              /\ ~Parsed.ok
              /\ ~ParseError.recoverable
              /\ ParseError.inner = Expecting(Semicolon)
              /\ ParseError.pos = PosAt(input, SemicolonAt)
              /\ ParseError.pos /= PosAt(input, start.cursor)
        /\ (input = FilenameExample /\ start.cursor = 0) =>
              /\ ~Parsed.ok
              /\ ParseError.pos = [line |-> 1, column |-> 16]

C10_Witness ==
    /\ FileBytesApplied
    /\ input = FilenameExample
    /\ start.cursor = 0
    /\ ~Parsed.ok
    /\ ParseError.inner = Expecting(Semicolon)
    /\ ParseError.pos = [line |-> 1, column |-> 16]

----------------------------------------------------------------------------
Applied(parser) == IsSome(parsed) /\ Parsed.parser = parser
Recovered == IsSome(parsed) /\ ~Parsed.ok /\ ParseError.recoverable

(* C11: whenever bytes, file_bytes or base64_bytes returns a recoverable
   error, wherever in whatever input it was invoked, the cursor, the line and
   the column of the reader are those it was invoked with. *)
C11_BacktrackingPurity ==
    \A parser \in {"bytes", "file_bytes", "base64_bytes"} :
        (Applied(parser) /\ Recovered) =>
            /\ state.cursor = start.cursor
            /\ state.line = start.line
            /\ state.column = start.column

(* base64_bytes has failed before the text that ends the second line *)
C11_Witness ==
    /\ Applied("base64_bytes")
    /\ Recovered
    /\ start.line = 2
    /\ start.column > 1
    /\ ~is_eof(input, start)
    /\ state = start

(* the alternatives of bytes in the order the claims give them, what each
   returns when it alone is applied where bytes was, and the first of them
   that does not fail recoverably, 0 when there is none *)
Alternatives == <<"raw_string", "json_bytes", "xml_bytes", "base64_bytes", "file_bytes">>
AlternativeResults ==
    [i \in DOMAIN Alternatives |-> parse_with(Alternatives[i], input, start)]
Decides(r) == r.ok \/ ~r.error.recoverable
First(alt) ==
    IF \A i \in DOMAIN alt : ~Decides(alt[i]) THEN 0
    ELSE CHOOSE i \in DOMAIN alt :
             Decides(alt[i]) /\ \A j \in 1..(i - 1) : ~Decides(alt[j])
Returned(r) ==
    /\ Parsed.ok = r.ok
    /\ r.ok => Parsed.value = Some(r.value) /\ state = r.state
    /\ ~r.ok => Parsed.error = Some(r.error)

(* C12: bytes returns what the first of raw_string, json_bytes, xml_bytes,
   base64_bytes, file_bytes, in this order, that does not fail recoverably
   returns; when all five fail recoverably it returns the error of the last,
   file_bytes: expecting "file", recoverable, as it does on the empty text. *)
C12_ChoiceOrdering ==
    Applied("bytes") =>
        \A alt \in {AlternativeResults} : \A first \in {First(alt)} :
            /\ first > 0 =>
                  /\ Returned(alt[first])
                  /\ Parsed.tried = SubSeq(Alternatives, 1, first)
            /\ first = 0 =>
                  /\ Returned(alt[Len(Alternatives)])
                  /\ Parsed.tried = Alternatives
                  /\ ~Parsed.ok
                  /\ ParseError.inner = Expecting(File)
                  /\ ParseError.recoverable
                  /\ ParseError.pos = PosAt(input, start.cursor)
            /\ input = <<>> =>
                  /\ ~Parsed.ok
                  /\ ParseError.inner = Expecting(File)
                  /\ ParseError.recoverable

(* bytes has failed on a text none of the five forms begins *)
C12_Witness ==
    /\ Applied("bytes")
    /\ ~is_eof(input, start)
    /\ First(AlternativeResults) = 0
    /\ Recovered
    /\ ParseError.inner = Expecting(File)

(* C13: when an alternative of bytes fails non recoverably, bytes returns that
   error as it is, with the reader where the alternative left it, and tries
   no later alternative: "{ x " fails at line 1, column 3, expecting a
   quotation mark, and a multiline string that is not closed fails at line 2,
   column 5, expecting the closing fence. *)
C13_FatalErrorsPropagate ==
    Applied("bytes") =>
        /\ \A alt \in {AlternativeResults} : \A first \in {First(alt)} :
              (first > 0 /\ ~alt[first].ok) =>
                  /\ ~Parsed.ok
                  /\ ParseError = alt[first].error
                  /\ ~ParseError.recoverable
                  /\ state = alt[first].state
                  /\ \A j \in (first + 1)..Len(Alternatives) :
                        \A k \in DOMAIN Parsed.tried : Parsed.tried[k] /= Alternatives[j]
        /\ (input = JsonErrorExample /\ start.cursor = 0) =>
              /\ ~Parsed.ok
              /\ ~ParseError.recoverable
              /\ ParseError.pos = [line |-> 1, column |-> 3]
              /\ ParseError.inner = Expecting(Quote)
              /\ Parsed.tried = <<"raw_string", "json_bytes">>
        /\ (input = MultilinesErrorExample /\ start.cursor = 0) =>
              /\ ~Parsed.ok
              /\ ~ParseError.recoverable
              /\ ParseError.pos = [line |-> 2, column |-> 5]
              /\ ParseError.inner = Expecting(Fence)
              /\ Parsed.tried = <<"raw_string">>

(* bytes has failed on "{ x ", in the JSON grammar *)
C13_Witness ==
    /\ Applied("bytes")
    /\ input = JsonErrorExample
    /\ start.cursor = 0
    /\ First(AlternativeResults) = 2
    /\ ~Parsed.ok
    /\ ParseError.pos = [line |-> 1, column |-> 3]

(* The body a parser returned *)
Body == Unwrap(Parsed.value)
Base64Parsed ==
    /\ Applied("base64_bytes") \/ Applied("bytes")
    /\ Parsed.ok
    /\ Body.variant = "Base64"

(* base64 decoding of a text, by the definition of the encoding: the
   characters of the alphabet are numbers of six bits, written one after the
   other, and the bytes are the groups of eight bits of what they write *)
Significant(text) == SelectSeq(text, LAMBDA c : c \in Base64Chars)
Exp2(n) == CASE n = 0 -> 1 [] n = 2 -> 4 [] n = 4 -> 16
Base64Decode(text) ==
    LET sextets == [i \in DOMAIN Significant(text) |-> Base64Value(Significant(text)[i])]
        byte(k) ==
            LET bit == 8 * (k - 1)
                i == bit \div 6 + 1
                window == sextets[i] * 64 + sextets[i + 1]
            IN (window \div Exp2(4 - (bit % 6))) % 256
    IN [k \in 1..((6 * Len(sextets)) \div 8) |-> byte(k)]
TWE == <<"T", " ", "W", "E", "=">>

(* C14: whenever base64_bytes succeeds, its value is the base64 decoding of
   its encoded text without the whitespace: the bytes 77, 97 for "T WE=". *)
C14_Base64RoundTrip ==
    /\ Base64Parsed => Body.value = Base64Decode(Body.encoded)
    /\ (Applied("base64_bytes") /\ input = Base64Example /\ start.cursor = 0) =>
          /\ Parsed.ok
          /\ Body.encoded = TWE
          /\ Body.value = <<77, 97>>

(* base64_bytes has read "T WE=" *)
C14_Witness ==
    /\ Applied("base64_bytes")
    /\ Base64Parsed
    /\ Body.encoded = TWE
    /\ Body.value = <<77, 97>>
    /\ Base64Decode(Body.encoded) = <<77, 97>>

FileParsed ==
    /\ Applied("file_bytes") \/ Applied("bytes")
    /\ Parsed.ok
    /\ Body.variant = "File"
(* the span of the n characters after the first k of the input *)
SpanAt(k, n) == [start |-> PosAt(input, k), end |-> PosAt(input, k + n)]
(* the body is the keyword, ",", its spaces, the payload, its spaces and ";",
   and these are the text the parser consumed, with the spaces where their
   spans say *)
Reproduces(keyword, payload) ==
    LET after == start.cursor + Len(keyword) + 1
        space0 == Body.space0
        space1 == Body.space1
    IN
    /\ Text(input, start, state)
          = keyword \o Comma \o space0.value \o payload \o space1.value \o Semicolon
    /\ space0.source_info = SpanAt(after, Len(space0.value))
    /\ space1.source_info
          = SpanAt(after + Len(space0.value) + Len(payload), Len(space1.value))
    /\ space1.source_info.end = PosAt(input, state.cursor - 1)
    /\ input[state.cursor] = ";"

(* C15: whenever file_bytes or base64_bytes succeeds, the keyword, ",", the
   spaces before the payload, the payload, the spaces after it and ";" are,
   one after the other, the text consumed; the span of the spaces before the
   payload begins after the "," and ends where the payload begins, and the
   span of the spaces after it begins where the payload ends and ends at the
   ";". *)
C15_BodyReproducesText ==
    /\ FileParsed =>
          /\ Reproduces(File, Body.filename.value)
          /\ Body.filename.source_info.start = Body.space0.source_info.end
          /\ Body.filename.source_info.end = Body.space1.source_info.start
    /\ Base64Parsed => Reproduces(Base64, Body.encoded)
    /\ (Applied("file_bytes") /\ input = FileSpaceExample /\ start.cursor = 0) =>
          /\ Parsed.ok
          /\ Body.space0.source_info = [start |-> [line |-> 1, column |-> 6],
                                         end |-> [line |-> 1, column |-> 7]]
          /\ Body.space1.source_info = [start |-> [line |-> 1, column |-> 16],
                                         end |-> [line |-> 1, column |-> 16]]

(* file_bytes has read "file, filename1;" *)
C15_Witness ==
    /\ Applied("file_bytes")
    /\ input = FileSpaceExample
    /\ FileParsed
    /\ Body.space0.value = <<" ">>
    /\ Body.space1.value = <<>>
    /\ state.cursor = Len(input)

JsonParsed ==
    /\ Applied("bytes")
    /\ Parsed.ok
    /\ Body.variant = "Json"
(* bytes was applied at the beginning of the text *)
BytesOf(text) == Applied("bytes") /\ input = text /\ start.cursor = 0
(* bytes has returned a JSON value of this variant and left the reader after
   the first n characters *)
JsonUpTo(variant, n) ==
    /\ JsonParsed
    /\ Body.value.variant = variant
    /\ state.cursor = n
    /\ Pos(state) = PosAt(input, n)

(* C16: whenever bytes succeeds with a JSON body the reader is just after the
   JSON value, whatever text follows it left unread: after 7 characters of
   "[1,2,3] ", 3 of "{ } ", 4 of "true" and 2 of the empty string followed by
   " x". *)
C16_JsonLeavesTrailingText ==
    /\ JsonParsed =>
          /\ state = parse_json(input, start).state
          /\ state.cursor > start.cursor
          /\ input[state.cursor] \notin JsonSpaces
    /\ BytesOf(JsonListExample) =>
          JsonUpTo("List", 7) /\ Len(Body.value.elements) = 3
    /\ BytesOf(JsonObjectExample) =>
          JsonUpTo("Object", 3) /\ Body.value.elements = <<>>
    /\ BytesOf(JsonTrueExample) => JsonUpTo("Boolean", 4)
    /\ BytesOf(JsonStringExample) =>
          JsonUpTo("String", 2) /\ Body.value.value = <<>>

(* bytes has read the list of "[1,2,3] " and left the space after it *)
C16_Witness ==
    /\ BytesOf(JsonListExample)
    /\ JsonUpTo("List", 7)
    /\ ~is_eof(input, state)
    /\ peek(input, state) = " "

(* base64_bytes was applied at "base64" ","; where the payload begins, the
   reader there, what the value parser makes of the text there, and where
   the ";" must be *)
KeywordBase64 ==
    Applied("base64_bytes") /\ StartsWith(input, start.cursor, Base64 \o Comma)
PayloadAt == RunEnd(SpaceChars, input, start.cursor + Len(Base64) + 1)
Saved ==
    [cursor |-> PayloadAt, line |-> PosAt(input, PayloadAt).line,
     column |-> PosAt(input, PayloadAt).column]
Speculative == base64_parse(input, Saved)
Count == Speculative.state.cursor - PayloadAt
EndAt == RunEnd(SpaceChars, input, Speculative.state.cursor)

(* C18: base64_bytes takes as encoded text the characters the value parser
   consumed from the reader saved after the spaces, as many and the same; the
   reader after reading them again is where the value parser left it, cursor,
   line and column; a success ends after the ";" that follows (after 15
   characters of "base64,  T WE=;xxx") and without that ";" there is none. *)
C18_PayloadReadAgain ==
    KeywordBase64 =>
        /\ Parsed.ok <=> StartsWith(input, EndAt, Semicolon)
        /\ Parsed.ok =>
              /\ Body.space0.source_info.end = Pos(Saved)
              /\ Len(Body.encoded) = Count
              /\ Body.encoded = SubSeq(input, PayloadAt + 1, PayloadAt + Count)
              /\ Body.value = Speculative.value
              /\ Body.space1.source_info.start = Pos(Speculative.state)
              /\ state.cursor = EndAt + 1
              /\ Pos(state) = PosAt(input, EndAt + 1)
        /\ ~Parsed.ok =>
              /\ ~ParseError.recoverable
              /\ ParseError.inner = Expecting(Semicolon)
              /\ ParseError.pos = PosAt(input, EndAt)
        /\ (input = Base64Example /\ start.cursor = 0) =>
              /\ Parsed.ok
              /\ Body.space0.value = <<" ", " ">>
              /\ Body.encoded = TWE
              /\ state.cursor = 15

(* base64_bytes has read "base64,  T WE=;" and left "xxx" *)
C18_Witness ==
    /\ KeywordBase64
    /\ input = Base64Example
    /\ Parsed.ok
    /\ Count = 5
    /\ Body.encoded = TWE
    /\ state.cursor = 15

----------------------------------------------------------------------------
(* what execute answered, or any answer when it was not called *)
TheOutcome == IF IsSome(outcome) THEN Unwrap(outcome) ELSE CHOOSE o \in Outcomes : TRUE
(* the latest invocation, had it been given this logger *)
RunWith(other) == run(TheEntry, TheOutcome, vars_before, store_before, other)

(* C17: an invocation given the same entry, variables, cookie store and
   answer of the HTTP client returns the same EntryResult and leaves the same
   variables and the same cookie store whichever logger it is given, and
   whatever that logger writes. *)
C17_LoggerDoesNotInterfere ==
    Invoked =>
        \A other \in Loggers : \A r \in {RunWith(other)} :
            /\ r.panicked <=> pc = "panicked"
            /\ r.result = result
            /\ r.variables = variables
            /\ add_cookies(store_before, r.added) = cookie_store
            /\ r.calls = calls

(* run was given the logger that writes, captured a variable and seeded a
   cookie: it has written what the silent logger does not write *)
C17_Witness ==
    /\ pc = "returned"
    /\ logger = "verbose"
    /\ TheResult.captures /= <<>>
    /\ variables /= vars_before
    /\ cookie_store /= store_before
    /\ Len(RunWith("verbose").log) > Len(TheResult.captures) + Len(cookie_store)
    /\ RunWith("silent").log = <<>>
    /\ RunWith("silent").result = result

----------------------------------------------------------------------------
HasRequest == IsSome(TheResult.request)
HasResponse == IsSome(TheResult.response)

(* C19: in every EntryResult run returns: a response comes with a request;
   captures or assertion results come with both; without request or without
   response there is exactly one error, no capture, no assertion result and
   the time 0; with both and with assertion results every error is tagged as
   an assertion error and there are at most as many errors as assertion
   results. *)
C19_EntryResultShape ==
    pc = "returned" =>
        /\ HasResponse => HasRequest
        /\ (TheResult.captures /= <<>> \/ TheResult.asserts /= <<>>) =>
              HasRequest /\ HasResponse
        /\ (~HasRequest \/ ~HasResponse) =>
              /\ Len(TheResult.errors) = 1
              /\ TheResult.captures = <<>>
              /\ TheResult.asserts = <<>>
              /\ TheResult.time_in_ms = 0
        /\ (HasRequest /\ HasResponse /\ TheResult.asserts /= <<>>) =>
              /\ \A i \in DOMAIN TheResult.errors : TheResult.errors[i].assert
              /\ Len(TheResult.errors) <= Len(TheResult.asserts)

(* run has returned captures and two assertion results, one of them failed *)
C19_Witness ==
    /\ pc = "returned"
    /\ HasRequest /\ HasResponse
    /\ TheResult.captures /= <<>>
    /\ Len(TheResult.asserts) = 2
    /\ Len(TheResult.errors) = 1
    /\ TheResult.errors[1].assert
    /\ TheResult.time_in_ms > 0

(* the captures of the result that bind name n, by their place in the list *)
CapturesOf(n) == {i \in DOMAIN TheResult.captures : TheResult.captures[i].name = n}

(* C20: after every invocation the variables are those before it overridden
   by the captures of the EntryResult it returned, the later capture of a name
   over the earlier: no binding is removed, a name that is not captured keeps
   its value, and without captures the variables are as they were. *)
C20_VariablesFrame ==
    /\ pc = "returned" =>
          IF TheResult.captures = <<>> THEN variables = vars_before
          ELSE \A n \in Names :
                LET at == CapturesOf(n)
                    last == CHOOSE i \in at : \A j \in at : j <= i
                IN
                /\ at /= {} => variables[n] = TheResult.captures[last].value
                /\ at = {} => variables[n] = vars_before[n]
                /\ vars_before[n] /= Undefined => variables[n] /= Undefined
    /\ pc = "panicked" => variables = vars_before

(* run has captured a name twice, with two values, over the value the name
   had, and has left the other name as it was *)
C20_Witness ==
    /\ pc = "returned"
    /\ CapturesOf("a") = {1, 2}
    /\ TheResult.captures[1].value /= TheResult.captures[2].value
    /\ vars_before["a"] \notin {Undefined, TheResult.captures[2].value}
    /\ vars_before["b"] /= Undefined
    /\ variables["a"] = TheResult.captures[2].value
    /\ variables["b"] = vars_before["b"]

====
